---- MODULE Spec2Model ----
(***************************************************************************)
(* Elevator Docs API (src/main.py, src/schemas.py): streaming upload of a  *)
(* document to STORAGE_DIR, its metadata record in db["document"], search, *)
(* download and inline view.                                               *)
(*                                                                         *)
(* Strings are sequences of one-character strings, so that split, strip,   *)
(* substring and regular-expression search are computed character by       *)
(* character.  An Optional[...] value is None (the empty tuple) or         *)
(* Some(v) (the one-element tuple holding v).                              *)
(***************************************************************************)
EXTENDS Integers, Sequences, FiniteSets, TLC

\* reqs        the upload requests: each one's form, its local variables
\*             (stored_name, storage_path, the read position in the stream),
\*             where it is suspended, and its outcome       (main.py:31-69)
\* storage     the files under STORAGE_DIR: path -> bytes   (main.py:22-23)
\* collection  db["document"], in the order of insertion    (main.py:68, 104)
\* oidCounter  the number of ObjectIds generated so far     (main.py:40)
\* response    the response of a search, download or view   (main.py:93, 114)
VARIABLES reqs, storage, collection, oidCounter, response

vars == <<reqs, storage, collection, oidCounter, response>>

(***************************************************************************)
(* Bounds of the model.                                                    *)
(***************************************************************************)
\* upload requests of one behaviour (all of them may be in flight at once)
MaxUploads == 2
\* bytes per file.read() call: the 1024 * 1024 of main.py:47, scaled down
ChunkSize == 2
\* hex digits of an identifier: the 24 of a bson ObjectId, scaled down
OidLen == 2
\* longest client-supplied file name
MaxNameLen == 4
\* longest raw tags input
MaxTagsLen == 7
\* largest limit of a search
MaxLimit == 2

\* longest uploaded stream: three full chunks
MaxStream == 3 * ChunkSize

Slots == 1..MaxUploads

(***************************************************************************)
(* Python values                                                           *)
(***************************************************************************)
None == <<>>

Some(v) == <<v>>

\* Python truthiness of an Optional[str]: None and "" are falsy
Truthy(o) == o # None /\ o[1] # <<>>

\* all sequences over S of length at most n
RECURSIVE SeqsUpTo(_, _)
SeqsUpTo(S, n) ==
    IF n = 0 THEN {<<>>}
    ELSE LET shorter == SeqsUpTo(S, n - 1)
         IN  shorter \cup {Append(s, c) : s \in {t \in shorter : Len(t) = n - 1}, c \in S}

Whitespace == {" "}

\* c in s
Contains(s, c) == \E k \in 1..Len(s) : s[k] = c

\* s.split(sep), sep a single character
RECURSIVE Split(_, _)
Split(s, sep) ==
    IF ~Contains(s, sep) THEN <<s>>
    ELSE LET k == CHOOSE j \in 1..Len(s) :
                      s[j] = sep /\ \A m \in 1..(j - 1) : s[m] # sep
         IN  <<SubSeq(s, 1, k - 1)>> \o Split(SubSeq(s, k + 1, Len(s)), sep)

\* s.strip()
RECURSIVE Strip(_)
Strip(s) ==
    IF s = <<>> THEN s
    ELSE IF s[1] \in Whitespace THEN Strip(Tail(s))
    ELSE IF s[Len(s)] \in Whitespace THEN Strip(SubSeq(s, 1, Len(s) - 1))
    ELSE s

\* c.lower(), on the letters the model uses
Lower(c) ==
    CASE c = "A" -> "a"
      [] c = "B" -> "b"
      [] c = "K" -> "k"
      [] c = "M" -> "m"
      [] c = "O" -> "o"
      [] OTHER -> c

(***************************************************************************)
(* bson.ObjectId                                                           *)
(***************************************************************************)
HexDigits == {"0", "1"}

\* str(ObjectId): the n-th identifier of the generator, as OidLen hex digits
RECURSIVE Digits(_, _)
Digits(n, w) ==
    IF w = 0 THEN <<>>
    ELSE Append(Digits(n \div 2, w - 1), IF n % 2 = 0 THEN "0" ELSE "1")

OidStr(n) == Digits(n, OidLen)

\* ObjectId(doc_id) raises unless doc_id is OidLen hex digits
IsValidOid(s) == Len(s) = OidLen /\ \A k \in 1..Len(s) : s[k] \in HexDigits

\* ObjectId(doc_id), for a valid doc_id
RECURSIVE OidParse(_)
OidParse(s) ==
    IF s = <<>> THEN 0
    ELSE 2 * OidParse(SubSeq(s, 1, Len(s) - 1)) + (IF s[Len(s)] = "1" THEN 1 ELSE 0)

\* identifiers the generator can still hand out
OidsLeft == oidCounter < 2 ^ OidLen

(***************************************************************************)
(* Storage: os.path and the files under STORAGE_DIR                        *)
(***************************************************************************)
STORAGE_DIR == <<"s">>

\* os.path.join(a, b)
Join(a, b) == IF b # <<>> /\ b[1] = "/" THEN b ELSE a \o <<"/">> \o b

\* os.path.dirname(p)
Dirname(p) ==
    IF ~Contains(p, "/") THEN <<>>
    ELSE LET k == CHOOSE j \in 1..Len(p) :
                      p[j] = "/" /\ \A m \in (j + 1)..Len(p) : p[m] # "/"
         IN  SubSeq(p, 1, k - 1)

\* open(p, "wb") succeeds when p names a file directly under an existing
\* directory; STORAGE_DIR is the only directory the program creates
CanOpen(p) == Dirname(p) = STORAGE_DIR /\ p[Len(p)] # "/"

\* os.path.exists(p)
Exists(p) == p \in DOMAIN storage

\* the size computed with the length of the last chunk read, which is empty
GetSizeOfLastChunk(p) == 0

\* os.path.getsize(p)
GetSize(p) == Len(storage[p])

\* the files after open(p, "wb"): p is created or truncated
Opened(p) == [f \in DOMAIN storage \cup {p} |-> IF f = p THEN <<>> ELSE storage[f]]

\* the files after f.write(bytes) on p
Written(p, bytes) == [storage EXCEPT ![p] = @ \o bytes]

(***************************************************************************)
(* upload_document: the pure parts                                         *)
(***************************************************************************)
\* file.filename.split('.')[-1]
Extension(filename) == LET parts == Split(filename, ".") IN parts[Len(parts)]

\* the stored name built from the whole client-supplied name
StoredNameEcho(oid, filename) == oid \o <<".">> \o filename

\* main.py:40
StoredName(oid, filename) ==
    IF Contains(filename, ".") THEN oid \o <<".">> \o Extension(filename) ELSE oid

\* main.py:65
ParseTags(tags) ==
    IF Truthy(tags)
    THEN LET parts == Split(tags[1], ",")
         IN  Some([k \in 1..Len(parts) |-> Strip(parts[k])])
    ELSE None

\* a form that only has to carry brand and title, empty or not
FormValidPresentOnly(form) == form.brand # None /\ form.title # None

\* brand: str = Form(...), title: str = Form(...): the request is rejected
\* with 422 before the handler runs when a required form field is missing
\* or empty
FormValid(form) == Truthy(form.brand) /\ Truthy(form.title)

\* Document(...), main.py:56-66
MakeDocument(form, size, stored_name, storage_path) ==
    [brand |-> form.brand[1],
     title |-> form.title[1],
     description |-> form.description,
     content_type |-> form.content_type,
     size |-> size,
     filename |-> stored_name,
     original_name |-> form.filename,
     path |-> storage_path,
     tags |-> ParseTags(form.tags)]

\* the constraints of the Document schema: brand and title are required
\* strings, size >= 0
DocumentValid(doc) == doc.size >= 0

\* create_document("document", doc): the record is stored under a fresh _id
CreateDocument(coll, doc, oid) ==
    Append(coll, [k \in DOMAIN doc \cup {"_id"} |-> IF k = "_id" THEN oid ELSE doc[k]])

\* the next chunk of request r: await file.read(1024 * 1024)
NextChunk(r) ==
    LET last == IF r.pos + ChunkSize < Len(r.form.stream)
                THEN r.pos + ChunkSize ELSE Len(r.form.stream)
    IN  SubSeq(r.form.stream, r.pos + 1, last)

(***************************************************************************)
(* upload_document: one request per slot                                   *)
(*   idle     the request has not arrived                                  *)
(*   reading  suspended in await file.read(...), the blob open for writing *)
(*   closing  the loop has ended, suspended in await file.close()          *)
(*   done     the request has its response (status) or its exception       *)
(***************************************************************************)
\* `response` is the response of a search, a download or a view that the
\* server has built and not yet sent, and NoResponse otherwise
NoResponse == [kind |-> "none"]

\* the event loop runs one step of one handler at a time, and the response
\* of a handler that has returned is sent before the next step is run
Ready == response = NoResponse

NoForm ==
    [brand |-> None, title |-> None, description |-> None, tags |-> None,
     filename |-> <<>>, content_type |-> None, stream |-> <<>>]

IdleReq ==
    [pc |-> "idle", form |-> NoForm, pos |-> 0, stored_name |-> <<>>,
     storage_path |-> <<>>, status |-> 0, error |-> "", body |-> None]

\* the request ends with an exception, reported as `status`
Failed(r, status, error) == [r EXCEPT !.pc = "done", !.status = status, !.error = error]

\* the request arrives (requests are numbered in the order of their arrival):
\* validation of the form, main.py:40-45, first read
UploadBegin(i, Forms) ==
    /\ reqs[i].pc = "idle"
    /\ \A j \in 1..(i - 1) : reqs[j].pc # "idle"
    /\ OidsLeft
    /\ \E form \in Forms :
         LET r == [reqs[i] EXCEPT !.form = form] IN
         IF ~FormValid(form)
         THEN /\ reqs' = [reqs EXCEPT ![i] = Failed(r, 422, "RequestValidationError")]
              /\ UNCHANGED <<storage, collection, oidCounter>>
         ELSE LET name == StoredName(OidStr(oidCounter), form.filename)
                  path == Join(STORAGE_DIR, name)
                  named == [r EXCEPT !.stored_name = name, !.storage_path = path]
              IN  /\ oidCounter' = oidCounter + 1
                  /\ IF CanOpen(path)
                     THEN /\ storage' = Opened(path)
                          /\ reqs' = [reqs EXCEPT ![i] = [named EXCEPT !.pc = "reading"]]
                     ELSE /\ storage' = storage
                          /\ reqs' = [reqs EXCEPT ![i] = Failed(named, 500, "FileNotFoundError")]
                  /\ UNCHANGED collection
    /\ Ready
    /\ UNCHANGED response

\* file.read returns: a chunk is written, or the empty chunk ends the loop
UploadChunk(i) ==
    /\ reqs[i].pc = "reading"
    /\ LET r == reqs[i]
           chunk == NextChunk(r)
       IN  IF chunk = <<>>
           THEN /\ reqs' = [reqs EXCEPT ![i] = [r EXCEPT !.pc = "closing"]]
                /\ storage' = storage
           ELSE /\ storage' = Written(r.storage_path, chunk)
                /\ reqs' = [reqs EXCEPT ![i] = [r EXCEPT !.pos = @ + Len(chunk)]]
    /\ UNCHANGED <<collection, oidCounter>>
    /\ Ready
    /\ UNCHANGED response

\* a read failure that is swallowed: the loop ends as if the stream had ended
UploadReadFailSwallowed(i) ==
    /\ reqs[i].pc = "reading"
    /\ reqs' = [reqs EXCEPT ![i] = [@ EXCEPT !.pc = "closing"]]
    /\ UNCHANGED <<storage, collection, oidCounter>>
    /\ Ready
    /\ UNCHANGED response

\* file.read raises (I/O error, or the client has gone away)
UploadReadFail(i) ==
    /\ reqs[i].pc = "reading"
    /\ reqs' = [reqs EXCEPT ![i] = Failed(@, 500, "ReadError")]
    /\ UNCHANGED <<storage, collection, oidCounter>>
    /\ Ready
    /\ UNCHANGED response

\* f.write raises after writing only a part of the chunk
UploadWriteFail(i) ==
    /\ reqs[i].pc = "reading"
    /\ LET r == reqs[i]
           chunk == NextChunk(r)
       IN  /\ chunk # <<>>
           /\ \E k \in 0..(Len(chunk) - 1) :
                storage' = Written(r.storage_path, SubSeq(chunk, 1, k))
           /\ reqs' = [reqs EXCEPT ![i] = Failed([r EXCEPT !.pos = @ + Len(chunk)], 500, "OSError")]
    /\ UNCHANGED <<collection, oidCounter>>
    /\ Ready
    /\ UNCHANGED response

\* main.py:54-69: the size, the document, the insert and the response
UploadFinish(i) ==
    /\ reqs[i].pc = "closing"
    /\ LET r == reqs[i] IN
       IF ~Exists(r.storage_path)
       THEN /\ reqs' = [reqs EXCEPT ![i] = Failed(r, 500, "FileNotFoundError")]
            /\ UNCHANGED <<collection, oidCounter>>
       ELSE LET doc == MakeDocument(r.form, GetSize(r.storage_path), r.stored_name, r.storage_path)
            IN  IF ~DocumentValid(doc)
                THEN /\ reqs' = [reqs EXCEPT ![i] = Failed(r, 500, "ValidationError")]
                     /\ UNCHANGED <<collection, oidCounter>>
                ELSE /\ OidsLeft
                     /\ collection' = CreateDocument(collection, doc, oidCounter)
                     /\ oidCounter' = oidCounter + 1
                     /\ reqs' = [reqs EXCEPT ![i] =
                            [r EXCEPT !.pc = "done", !.status = 200,
                                      !.body = Some([id |-> OidStr(oidCounter),
                                                     message |-> "Uploaded"])]]
    /\ storage' = storage
    /\ Ready
    /\ UNCHANGED response

\* an insert failure that is swallowed: the handler answers all the same
UploadInsertFailSwallowed(i) ==
    /\ reqs[i].pc = "closing"
    /\ Exists(reqs[i].storage_path)
    /\ reqs' = [reqs EXCEPT ![i] =
           [@ EXCEPT !.pc = "done", !.status = 200, !.error = "PersistenceError",
                     !.body = Some([id |-> <<>>, message |-> "Uploaded"])]]
    /\ UNCHANGED <<storage, collection, oidCounter>>
    /\ Ready
    /\ UNCHANGED response

\* create_document raises: nothing is inserted, main.py:68
UploadInsertFail(i) ==
    /\ reqs[i].pc = "closing"
    /\ Exists(reqs[i].storage_path)
    /\ reqs' = [reqs EXCEPT ![i] = Failed(@, 500, "PersistenceError")]
    /\ UNCHANGED <<storage, collection, oidCounter>>
    /\ Ready
    /\ UNCHANGED response

\* a blob is removed from the storage directory out-of-band; the blobs that
\* an upload still has open are left alone
RemoveBlob(p) ==
    /\ Exists(p)
    /\ \A i \in Slots : ~(reqs[i].pc = "reading" /\ reqs[i].storage_path = p)
    /\ storage' = [f \in DOMAIN storage \ {p} |-> storage[f]]
    /\ UNCHANGED <<reqs, collection, oidCounter>>
    /\ Ready
    /\ UNCHANGED response

(***************************************************************************)
(* Specification of the upload pipeline                                    *)
(***************************************************************************)
Init ==
    /\ reqs = [i \in Slots |-> IdleReq]
    /\ storage = <<>>
    /\ collection = <<>>
    /\ oidCounter = 0
    /\ response = NoResponse

Bytes(n) == [k \in 1..n |-> k % 2]

\* the empty stream, one byte, a partial second chunk, three full chunks
StreamLengths == {0, 1, ChunkSize + 1, MaxStream}

UploadForms ==
    [brand : {None, Some(<<>>), Some(<<"O">>)},
     title : {None, Some(<<>>), Some(<<"A">>)},
     description : {None},
     tags : {None},
     filename : {<<"a", ".", "p">>},
     content_type : {None},
     stream : {Bytes(n) : n \in StreamLengths}]

Next ==
    \/ \E i \in Slots : UploadBegin(i, UploadForms)
    \/ \E i \in Slots : UploadChunk(i)
    \/ \E i \in Slots : UploadReadFail(i)
    \/ \E i \in Slots : UploadWriteFail(i)
    \/ \E i \in Slots : UploadFinish(i)
    \/ \E i \in Slots : UploadInsertFail(i)
    \/ \E p \in DOMAIN storage : RemoveBlob(p)

Spec == Init /\ [][Next]_vars

(***************************************************************************)
(* Properties of the upload pipeline                                       *)
(***************************************************************************)
\* the positions in the collection of the records of the blob of request i
RecordsOf(i) ==
    {k \in 1..Len(collection) :
        reqs[i].stored_name # <<>> /\ collection[k].filename = reqs[i].stored_name}

\* the request has started on a blob: its name is chosen
Named(i) == reqs[i].stored_name # <<>>

\* C1: every record refers to a blob whose write loop ran to the end of the
\* stream (the blob, unless removed since, holds the whole stream); an upload
\* has at most one record, exactly one once it has succeeded, and none while
\* it is still writing or closing, nor when it failed at a read, a write or
\* the insert.
RecordOnlyAfterFullWrite ==
    /\ \A k \in 1..Len(collection) :
         \E i \in Slots :
            /\ k \in RecordsOf(i)
            /\ reqs[i].pc = "done"
            /\ reqs[i].error = ""
            /\ reqs[i].pos = Len(reqs[i].form.stream)
            /\ collection[k].path = reqs[i].storage_path
            /\ Exists(collection[k].path) =>
                   storage[collection[k].path] = reqs[i].form.stream
    /\ \A i \in Slots :
         /\ Cardinality(RecordsOf(i)) <= 1
         /\ reqs[i].status = 200 => Cardinality(RecordsOf(i)) = 1
         /\ (reqs[i].pc # "done" \/ reqs[i].error # "") => RecordsOf(i) = {}

\* C1 witness: one upload has its record while another failed in the middle
\* of the stream, leaving a partial blob and no record.
RecordOnlyAfterFullWriteWitness ==
    /\ Len(collection) = 1
    /\ \E i \in Slots :
         /\ reqs[i].error \in {"ReadError", "OSError"}
         /\ Exists(reqs[i].storage_path)
         /\ storage[reqs[i].storage_path] # <<>>
         /\ storage[reqs[i].storage_path] # reqs[i].form.stream
         /\ RecordsOf(i) = {}

\* C2: a finished upload answers 200 {id, message} only if nothing raised:
\* the whole stream was written and the record of that id is in the
\* collection; an upload in which the write, the read or the insert raised
\* ends with an error status and no success body.
SuccessOnlyIfBlobAndRecord ==
    \A i \in Slots :
        reqs[i].pc = "done" =>
            /\ reqs[i].status = 200 <=> reqs[i].error = ""
            /\ reqs[i].status = 200 =>
                   /\ reqs[i].body # None
                   /\ DOMAIN reqs[i].body[1] = {"id", "message"}
                   /\ reqs[i].body[1].message = "Uploaded"
                   /\ IsValidOid(reqs[i].body[1].id)
                   /\ reqs[i].pos = Len(reqs[i].form.stream)
                   /\ \E k \in RecordsOf(i) :
                          collection[k]._id = OidParse(reqs[i].body[1].id)
            /\ reqs[i].error # "" =>
                   /\ reqs[i].status \in {422, 500}
                   /\ reqs[i].body = None

\* C2 witness: the blob was saved in full, the insert raised, and the upload
\* ended with 500; another upload's write raised and it ended with 500 too.
SuccessOnlyIfBlobAndRecordWitness ==
    /\ \E i \in Slots :
         /\ reqs[i].error = "PersistenceError"
         /\ reqs[i].status = 500
         /\ Exists(reqs[i].storage_path)
         /\ storage[reqs[i].storage_path] = reqs[i].form.stream
         /\ Len(reqs[i].form.stream) > ChunkSize
    /\ \E i \in Slots : reqs[i].error = "OSError" /\ reqs[i].status = 500

\* C3: the size of the record of a successful upload is the number of bytes
\* of the stream, which is the sum of the chunks read and, while the blob is
\* there, the length of the blob.
SizeIsBytesWritten ==
    \A i \in Slots :
        reqs[i].status = 200 =>
            \A k \in RecordsOf(i) :
                /\ collection[k].size = Len(reqs[i].form.stream)
                /\ collection[k].size = reqs[i].pos
                /\ Exists(collection[k].path) =>
                       collection[k].size = Len(storage[collection[k].path])

\* C3 witness: a record of three full chunks and a record of one byte.
SizeIsBytesWrittenWitness ==
    /\ \E k \in 1..Len(collection) :
         /\ collection[k].size = 3 * ChunkSize
         /\ Exists(collection[k].path)
    /\ \E k \in 1..Len(collection) : collection[k].size = 1

\* brand or title is missing or empty
MissingRequired(form) == ~Truthy(form.brand) \/ ~Truthy(form.title)

\* C5: every step of an upload whose brand or title is missing or empty
\* ends it with the validation error 422 and leaves the storage directory
\* and the collection as they were.
InvalidFormWritesNothing ==
    [][\A i \in Slots :
          (reqs'[i] # reqs[i] /\ MissingRequired(reqs'[i].form) /\ reqs'[i].pc # "idle") =>
              /\ reqs'[i].pc = "done"
              /\ reqs'[i].status = 422
              /\ reqs'[i].error = "RequestValidationError"
              /\ reqs'[i].stored_name = <<>>
              /\ storage' = storage
              /\ collection' = collection]_vars

\* C5 witness: uploads with an empty brand and with a missing title were
\* rejected, and nothing is stored or recorded.
InvalidFormWritesNothingWitness ==
    /\ \E i \in Slots :
         /\ reqs[i].status = 422
         /\ reqs[i].form.brand = Some(<<>>)
         /\ Truthy(reqs[i].form.title)
    /\ \E i \in Slots :
         /\ reqs[i].status = 422
         /\ reqs[i].form.title = None
         /\ Truthy(reqs[i].form.brand)
    /\ DOMAIN storage = {}
    /\ collection = <<>>

(***************************************************************************)
(* list_documents                                                          *)
(***************************************************************************)
\* re.search(p, s, re.IGNORECASE), for patterns of letters and ".", the
\* metacharacter that matches any one character
RegexSearch(p, s) ==
    \E start \in 0..(Len(s) - Len(p)) :
        \A j \in 1..Len(p) : p[j] = "." \/ Lower(p[j]) = Lower(s[start + j])

\* the filter that matches every record, whatever q and brand are
FilterQueryEmpty(q, brand) == <<>>

\* main.py:78-87: the filter as a sequence of its entries
FilterQuery(q, brand) ==
    (IF Truthy(brand) THEN <<[key |-> "brand", value |-> brand[1]]>> ELSE <<>>)
    \o (IF Truthy(q)
        THEN <<[key |-> "$or",
                value |-> <<[field |-> "title", regex |-> q[1], options |-> "i"],
                            [field |-> "description", regex |-> q[1], options |-> "i"],
                            [field |-> "tags", regex |-> q[1], options |-> "i"]>>]>>
        ELSE <<>>)

\* one clause of the $or against a record: $regex on a string field ($elemMatch
\* on the elements of tags); an absent field matches nothing
ClauseMatches(clause, d) ==
    CASE clause.field = "title" -> RegexSearch(clause.regex, d.title)
      [] clause.field = "description" ->
            d.description # None /\ RegexSearch(clause.regex, d.description[1])
      [] clause.field = "tags" ->
            d.tags # None /\ \E k \in 1..Len(d.tags[1]) : RegexSearch(clause.regex, d.tags[1][k])

\* a record matches a filter when it matches every entry
FilterMatches(filter, d) ==
    \A n \in 1..Len(filter) :
        IF filter[n].key = "brand"
        THEN d.brand = filter[n].value
        ELSE \E c \in 1..Len(filter[n].value) : ClauseMatches(filter[n].value[c], d)

\* get_documents("document", filter, limit): the matching records in the order
\* of their insertion, at most `limit` of them
GetDocuments(coll, filter, limit) ==
    LET found == SelectSeq(coll, LAMBDA d : FilterMatches(filter, d))
    IN  SubSeq(found, 1, IF Len(found) < limit THEN Len(found) ELSE limit)

\* the record as stored, the _id turned into a string
ProjectKeepingPath(d) ==
    [k \in DOMAIN d \cup {"id"} |-> IF k = "id" THEN OidStr(d._id) ELSE d[k]]

\* main.py:91-92
Project(d) ==
    [k \in (DOMAIN d \ {"_id", "path"}) \cup {"id"} |->
        IF k = "id" THEN OidStr(d._id) ELSE d[k]]

\* main.py:77-93
ListDocuments(q, brand, limit) ==
    /\ Ready
    /\ LET docs == GetDocuments(collection, FilterQuery(q, brand), limit)
       IN  response' = [kind |-> "search", q |-> q, brand |-> brand, limit |-> limit,
                        status |-> 200,
                        items |-> [k \in 1..Len(docs) |-> Project(docs[k])]]
    /\ UNCHANGED <<reqs, storage, collection, oidCounter>>

(***************************************************************************)
(* download_document and view_document                                     *)
(***************************************************************************)
\* "application/octet-stream"
OctetStream == <<"o", "c", "t">>

\* db["document"].find_one({"_id": _id})
FindOne(coll, oid) ==
    IF \E k \in 1..Len(coll) : coll[k]._id = oid
    THEN Some(coll[CHOOSE k \in 1..Len(coll) : coll[k]._id = oid])
    ELSE None

\* HTTPException(status_code, detail)
HTTPException(kind, doc_id, status, detail, looked_up) ==
    [kind |-> kind, doc_id |-> doc_id, status |-> status, detail |-> detail,
     looked_up |-> looked_up, body |-> <<>>, media_type |-> <<>>,
     filename |-> <<>>, disposition |-> ""]

\* FileResponse(path=, filename=, media_type=): the bytes of the file, and
\* Content-Disposition of the default type, "attachment"
FileResponse(kind, doc_id, path, filename, media_type) ==
    [kind |-> kind, doc_id |-> doc_id, status |-> 200, detail |-> "",
     looked_up |-> TRUE, body |-> storage[path], media_type |-> media_type,
     filename |-> filename, disposition |-> "attachment"]

\* a lookup that takes every identifier as well formed
RetrieveWithoutIdCheck(kind, doc_id) ==
    LET doc == FindOne(collection, OidParse(doc_id))
    IN  IF doc = None
        THEN HTTPException(kind, doc_id, 404, "Document not found", TRUE)
        ELSE IF doc[1].path = <<>> \/ ~Exists(doc[1].path)
        THEN HTTPException(kind, doc_id, 404, "File not found on server", TRUE)
        ELSE FileResponse(kind, doc_id, doc[1].path,
                          IF doc[1].original_name # <<>> THEN doc[1].original_name
                                                         ELSE doc[1].filename,
                          IF Truthy(doc[1].content_type) THEN doc[1].content_type[1]
                                                         ELSE OctetStream)

\* main.py:98-114 and, word for word, main.py:119-135
Retrieve(kind, doc_id) ==
    IF ~IsValidOid(doc_id)
    THEN HTTPException(kind, doc_id, 400, "Invalid document id", FALSE)
    ELSE LET doc == FindOne(collection, OidParse(doc_id))
         IN  IF doc = None
             THEN HTTPException(kind, doc_id, 404, "Document not found", TRUE)
             ELSE IF doc[1].path = <<>> \/ ~Exists(doc[1].path)
             THEN HTTPException(kind, doc_id, 404, "File not found on server", TRUE)
             ELSE FileResponse(kind, doc_id, doc[1].path,
                               IF doc[1].original_name # <<>> THEN doc[1].original_name
                                                              ELSE doc[1].filename,
                               IF Truthy(doc[1].content_type) THEN doc[1].content_type[1]
                                                              ELSE OctetStream)

\* GET /api/documents/{doc_id}/download
DownloadDocument(doc_id) ==
    /\ Ready
    /\ response' = Retrieve("download", doc_id)
    /\ UNCHANGED <<reqs, storage, collection, oidCounter>>

\* GET /api/documents/{doc_id}/view
ViewDocument(doc_id) ==
    /\ Ready
    /\ response' = Retrieve("view", doc_id)
    /\ UNCHANGED <<reqs, storage, collection, oidCounter>>

\* the response is sent to the client
SendResponse ==
    /\ ~Ready
    /\ response' = NoResponse
    /\ UNCHANGED <<reqs, storage, collection, oidCounter>>

(***************************************************************************)
(* Specification of search, download and view over uploaded documents      *)
(***************************************************************************)
\* a document without a file name and without a declared content type, and
\* a document with both; their blobs differ
RetrievalForms ==
    {[brand |-> Some(<<"O">>), title |-> Some(<<"A">>), description |-> None,
      tags |-> None, filename |-> <<>>, content_type |-> None,
      stream |-> Bytes(1)],
     [brand |-> Some(<<"K">>), title |-> Some(<<"A">>), description |-> None,
      tags |-> Some(<<"a">>), filename |-> <<"a", ".", "p">>,
      content_type |-> Some(<<"p">>), stream |-> Bytes(2)]}

\* the identifiers generated so far (of records and of blob names) and the
\* next one, and identifiers that are not well formed: a character that is
\* no hex digit, too short, too long
DocIds ==
    {OidStr(n) : n \in {m \in 0..oidCounter : m < 2 ^ OidLen}}
    \cup {[k \in 1..OidLen |-> "g"],
          [k \in 1..(OidLen - 1) |-> "0"],
          [k \in 1..(OidLen + 1) |-> "0"]}

RetrievalBrands == {None, Some(<<"O">>)}

NextRetrieval ==
    \/ \E i \in Slots : UploadBegin(i, RetrievalForms)
    \/ \E i \in Slots : UploadChunk(i)
    \/ \E i \in Slots : UploadReadFail(i)
    \/ \E i \in Slots : UploadWriteFail(i)
    \/ \E i \in Slots : UploadFinish(i)
    \/ \E i \in Slots : UploadInsertFail(i)
    \/ \E p \in DOMAIN storage : RemoveBlob(p)
    \/ \E brand \in RetrievalBrands, limit \in 1..MaxLimit :
          ListDocuments(None, brand, limit)
    \/ \E doc_id \in DocIds : DownloadDocument(doc_id)
    \/ \E doc_id \in DocIds : ViewDocument(doc_id)
    \/ SendResponse

SpecRetrieval == Init /\ [][NextRetrieval]_vars

\* the records with the given _id
WithId(oid) == {k \in 1..Len(collection) : collection[k]._id = oid}

\* C7: no item of a search response has the key path or the key _id; every
\* item has the key id, a well-formed identifier string that names a record
\* of the collection, and carries that record's other fields.
SearchItemsHidePath ==
    response.kind = "search" =>
        \A n \in 1..Len(response.items) :
            LET item == response.items[n] IN
            /\ "path" \notin DOMAIN item
            /\ "_id" \notin DOMAIN item
            /\ "id" \in DOMAIN item
            /\ IsValidOid(item.id)
            /\ \E k \in WithId(OidParse(item.id)) :
                   /\ DOMAIN item = (DOMAIN collection[k] \ {"_id", "path"}) \cup {"id"}
                   /\ \A f \in DOMAIN item \ {"id"} : item[f] = collection[k][f]

\* C7 witness: a search answered with as many items as the limit allows,
\* over a collection of records that all have a storage path.
SearchItemsHidePathWitness ==
    /\ response.kind = "search"
    /\ Len(response.items) = MaxLimit
    /\ \A k \in 1..Len(collection) : collection[k].path # <<>>

\* C8: download and view answer 400 without a lookup for an identifier that
\* is not well formed, 404 for a well-formed one without a record, 404 for a
\* record whose blob is not in the storage directory, and the file only for
\* a record whose blob is there.
RetrievalClassified ==
    response.kind \in {"download", "view"} =>
        LET id == response.doc_id IN
        IF ~(Len(id) = OidLen /\ \A k \in 1..Len(id) : id[k] \in HexDigits)
        THEN response.status = 400 /\ ~response.looked_up
        ELSE LET found == {k \in 1..Len(collection) : OidStr(collection[k]._id) = id}
             IN  IF found = {}
                 THEN response.status = 404 /\ response.looked_up
                 ELSE \A k \in found :
                        IF collection[k].path \in DOMAIN storage
                        THEN /\ response.status = 200
                             /\ response.body = storage[collection[k].path]
                        ELSE response.status = 404

\* C8 witness: a view of a record whose blob was removed after the upload is
\* answered 404 while another record still has its blob.
RetrievalClassifiedWitness ==
    /\ response.kind = "view"
    /\ response.status = 404
    /\ \E k \in WithId(OidParse(response.doc_id)) : ~Exists(collection[k].path)
    /\ \E k \in 1..Len(collection) : Exists(collection[k].path)

\* C9: a file response carries the bytes of the blob, the declared content
\* type (else application/octet-stream) and the original name (else the
\* stored name), with disposition "attachment" from download and "inline"
\* from view.
DispositionByOperation ==
    (response.kind \in {"download", "view"} /\ response.status = 200) =>
        \A k \in WithId(OidParse(response.doc_id)) :
            LET d == collection[k] IN
            /\ response.body = storage[d.path]
            /\ response.media_type =
                   (IF d.content_type = None \/ d.content_type = Some(<<>>)
                    THEN OctetStream ELSE d.content_type[1])
            /\ response.filename =
                   (IF d.original_name = <<>> THEN d.filename ELSE d.original_name)
            /\ response.kind = "download" => response.disposition = "attachment"
            /\ response.kind = "view" => response.disposition = "inline"

(***************************************************************************)
(* Specification of uploads under every client-supplied file name          *)
(***************************************************************************)
\* the characters of a client-supplied file name: the extension separator,
\* the path separator and a letter.  The hex digits of an identifier are left
\* out: a client cannot guess the identifier its upload will be given.
NameChars == {".", "/", "a"}

NameForms ==
    [brand : {Some(<<"O">>)},
     title : {Some(<<"A">>)},
     description : {None},
     tags : {None},
     filename : SeqsUpTo(NameChars, MaxNameLen),
     content_type : {None},
     stream : {Bytes(1)}]

NextName ==
    \/ \E i \in Slots : UploadBegin(i, NameForms)
    \/ \E i \in Slots : UploadChunk(i)
    \/ \E i \in Slots : UploadReadFail(i)
    \/ \E i \in Slots : UploadWriteFail(i)
    \/ \E i \in Slots : UploadFinish(i)
    \/ \E i \in Slots : UploadInsertFail(i)

SpecName == Init /\ [][NextName]_vars

\* t is a suffix of s
IsSuffix(t, s) == Len(t) <= Len(s) /\ SubSeq(s, Len(s) - Len(t) + 1, Len(s)) = t

\* s has the path-traversal sequence ".."
HasDotDot(s) == \E k \in 1..(Len(s) - 1) : s[k] = "." /\ s[k + 1] = "."

\* C4: the stored name of every upload is the generated identifier, alone or
\* followed by "." and an extension taken from the end of the client's name;
\* it is not the client's name, it has no path separator and no "..", and
\* the storage location is that name directly under the storage directory.
StoredNameIsSafe ==
    \A i \in Slots :
        Named(i) =>
            LET name == reqs[i].stored_name
                oid == SubSeq(name, 1, OidLen)
                rest == SubSeq(name, OidLen + 1, Len(name))
            IN  /\ IsValidOid(oid)
                /\ rest = <<>> \/ (rest[1] = "." /\ IsSuffix(Tail(rest), reqs[i].form.filename))
                /\ name # reqs[i].form.filename
                /\ ~HasDotDot(name)
                /\ ~Contains(name, "/")
                /\ reqs[i].storage_path = STORAGE_DIR \o <<"/">> \o name
                /\ Dirname(reqs[i].storage_path) = STORAGE_DIR

(***************************************************************************)
(* Specification of uploads under every raw tags input                     *)
(***************************************************************************)
TagChars == {"a", ",", " "}

TagsForms ==
    [brand : {Some(<<"O">>)},
     title : {Some(<<"A">>)},
     description : {None},
     tags : {None} \cup {Some(t) : t \in SeqsUpTo(TagChars, MaxTagsLen)},
     filename : {<<"a", ".", "p">>},
     content_type : {None},
     stream : {Bytes(0)}]

NextTags ==
    \/ UploadBegin(1, TagsForms)
    \/ UploadChunk(1)
    \/ UploadReadFail(1)
    \/ UploadFinish(1)
    \/ UploadInsertFail(1)

SpecTags == Init /\ [][NextTags]_vars

\* the positions of the commas of s, and the k-th of them (0 before the
\* first field, Len(s) + 1 after the last)
Commas(s) == {j \in 1..Len(s) : s[j] = ","}

Comma(s, k) ==
    IF k = 0 THEN 0
    ELSE IF k > Cardinality(Commas(s)) THEN Len(s) + 1
    ELSE CHOOSE j \in Commas(s) : Cardinality({m \in Commas(s) : m < j}) = k - 1

\* s without its leading and trailing whitespace
Trimmed(s) ==
    LET black == {j \in 1..Len(s) : s[j] \notin Whitespace}
    IN  IF black = {} THEN <<>>
        ELSE SubSeq(s, CHOOSE j \in black : \A m \in black : j <= m,
                       CHOOSE j \in black : \A m \in black : j >= m)

\* C10: the tags of every record are absent when the raw input is absent or
\* empty; otherwise they are the fields between the commas of the input, in
\* order, each trimmed, and at least one of them is not the empty string.
TagsAreTrimmedFields ==
    \A i \in Slots : \A k \in RecordsOf(i) :
        LET raw == reqs[i].form.tags
            tags == collection[k].tags
        IN  IF raw = None \/ raw = Some(<<>>)
            THEN tags = None
            ELSE /\ tags # None
                 /\ Len(tags[1]) = Cardinality(Commas(raw[1])) + 1
                 /\ \A n \in 1..Len(tags[1]) :
                        tags[1][n] = Trimmed(SubSeq(raw[1], Comma(raw[1], n - 1) + 1,
                                                            Comma(raw[1], n) - 1))
                 /\ \E n \in 1..Len(tags[1]) : tags[1][n] # <<>>

(***************************************************************************)
(* Specification of search over uploaded documents                         *)
(***************************************************************************)
\* {brand=Otis, title=Manual A} and {brand=KONE, title=Manual B}, and a
\* document with a description and tags
FilterForms ==
    {[brand |-> Some(<<"O">>), title |-> Some(<<"m", "A">>), description |-> None,
      tags |-> None, filename |-> <<"a", ".", "p">>, content_type |-> None,
      stream |-> Bytes(0)],
     [brand |-> Some(<<"K">>), title |-> Some(<<"m", "B">>), description |-> None,
      tags |-> None, filename |-> <<"a", ".", "p">>, content_type |-> None,
      stream |-> Bytes(0)],
     [brand |-> Some(<<"K">>), title |-> Some(<<"m">>), description |-> Some(<<"b", "a">>),
      tags |-> Some(<<"a", ",", " ", "B">>), filename |-> <<"a", ".", "p">>,
      content_type |-> None, stream |-> Bytes(0)]}

QueryChars == {"a", "B", "m", "."}

FilterQueries == {None} \cup {Some(q) : q \in SeqsUpTo(QueryChars, 2)}

FilterBrands == {None, Some(<<>>), Some(<<"O">>), Some(<<"K">>), Some(<<"o">>)}

NextFilter ==
    \/ \E i \in Slots : UploadBegin(i, FilterForms)
    \/ \E i \in Slots : UploadChunk(i)
    \/ \E i \in Slots : UploadReadFail(i)
    \/ \E i \in Slots : UploadFinish(i)
    \/ \E i \in Slots : UploadInsertFail(i)
    \/ \E q \in FilterQueries, brand \in FilterBrands, limit \in 1..MaxLimit :
          ListDocuments(q, brand, limit)
    \/ SendResponse

SpecFilter == Init /\ [][NextFilter]_vars

\* q is a substring of s, letter case aside
IsSubstring(q, s) ==
    \E start \in 0..(Len(s) - Len(q)) :
        \A j \in 1..Len(q) : Lower(q[j]) = Lower(s[start + j])

\* the record d matches (q, brand) as the search contract has it; a parameter
\* that is absent or empty is not given
MatchesAsSpecified(q, brand, d) ==
    /\ ~Truthy(brand) \/ d.brand = brand[1]
    /\ \/ ~Truthy(q)
       \/ IsSubstring(q[1], d.title)
       \/ d.description # None /\ IsSubstring(q[1], d.description[1])
       \/ d.tags # None /\ \E k \in 1..Len(d.tags[1]) : IsSubstring(q[1], d.tags[1][k])

\* C6: the items of a search response are the records that match (q, brand)
\* by exact brand and by case-insensitive substring of title, description or
\* a tag, in the order of insertion, up to the limit.
SearchMatchesSubstring ==
    response.kind = "search" =>
        LET matching == SelectSeq(collection,
                            LAMBDA d : MatchesAsSpecified(response.q, response.brand, d))
            expected == SubSeq(matching, 1,
                            IF Len(matching) < response.limit THEN Len(matching)
                                                              ELSE response.limit)
        IN  /\ Len(response.items) = Len(expected)
            /\ \A n \in 1..Len(expected) : response.items[n].id = OidStr(expected[n]._id)

====
